---- MODULE Spec2Model ----
(***************************************************************************)
(* A model of pipe.py: the single-value pipeline Pipe, the stream pipeline *)
(* PipeStream, the fan-out marker Spread and the stage constructors        *)
(* spread, keep and tap.                                                   *)
(*                                                                         *)
(* Python values are records [k, n, items]: k is the runtime type, n the   *)
(* number of an int or bool, items the elements of a container (the code   *)
(* points of a str, the bytes of a bytes, the one wrapped value of a       *)
(* Spread).  Lists of stages are heap objects (the variable lists), so     *)
(* that sharing a list and copying it are different things.                *)
(***************************************************************************)
EXTENDS Integers, Sequences, FiniteSets

VARIABLES
  pipe,     \* the Pipe object: [stack (a list of the heap), input_data]
  stream,   \* the PipeStream object: [stack (a list of the heap), input_data]
  lists,    \* the heap of stage lists
  last,     \* the last operation: what it was called with and what came of it
  hist,     \* history: the constructor inputs and the stages appended with >>
  stored    \* history: uses and iterations of the marker stream.input_data holds

vars == <<pipe, stream, lists, last, hist, stored>>

\* The longest stage list an append may build.
MaxStages == 2

\* The most invocations that read the marker a PipeStream stores.
MaxStoredCalls == 2

----------------------------------------------------------------------------
(* Values *)

None == [k |-> "none", n |-> 0, items |-> <<>>]
Num(i) == [k |-> "int", n |-> i, items |-> <<>>]
Bool(b) == [k |-> "bool", n |-> IF b THEN 1 ELSE 0, items |-> <<>>]
Str(cs) == [k |-> "str", n |-> 0, items |-> cs]
Bytes(bs) == [k |-> "bytes", n |-> 0, items |-> bs]
List(xs) == [k |-> "list", n |-> 0, items |-> xs]
Tuple(xs) == [k |-> "tuple", n |-> 0, items |-> xs]
TypeError(v) == [k |-> "TypeError", n |-> 0, items |-> <<v>>]

\* class Spread: __init__ keeps the iterable it is given, as it is.
Spread(values) == [k |-> "spread", n |-> 0, items |-> <<values>>]

IsSpread(v) == v.k = "spread"

\* isinstance(v, Iterable): every type with an __iter__, Spread included.
IsIterable(v) == v.k \in {"str", "bytes", "list", "tuple", "spread"}

StrOnly == {"str"}

\* _NON_STREAM_TYPES
NON_STREAM_TYPES == {"str", "bytes"}

\* What iterating a value yields: a str yields its one-character strs, a
\* bytes its ints, a list or tuple its elements, and Spread.__iter__
\* iterates the iterable the marker wraps.
RECURSIVE Iter(_)
Iter(v) ==
  CASE v.k = "str" -> [j \in 1..Len(v.items) |-> Str(<<v.items[j]>>)]
    [] v.k = "spread" -> Iter(v.items[1])
    [] OTHER -> v.items

\* bool(v), as `if predicate(value)` takes it.
Truthy(v) ==
  CASE v.k \in {"int", "bool"} -> v.n # 0
    [] v.k = "none" -> FALSE
    [] v.k = "spread" -> TRUE
    [] OTHER -> Len(v.items) > 0

----------------------------------------------------------------------------
(* The caller's functions.  Each returns [ok, val, fx]: val is the value   *)
(* returned, or the exception raised when ok is FALSE; fx is the sequence  *)
(* of calls of the caller's predicate and effect functions it made.        *)

Return(v) == [ok |-> TRUE, val |-> v, fx |-> <<>>]
Raise(e) == [ok |-> FALSE, val |-> e, fx |-> <<>>]
Call(f, v) == [fn |-> f, arg |-> v]

Abc == Str(<<Num(97), Num(98)>>)

\* inc   = lambda v: v + 1          twin = lambda v: [v, v + 1]
\* count = len                      text = lambda v: "ab"
\* even  = lambda v: v % 2 == 0     note = seen.append, made to return True
Func(f, v) ==
  CASE f = "inc" -> IF v.k = "int" THEN Return(Num(v.n + 1)) ELSE Raise(TypeError(v))
    [] f = "twin" -> IF v.k = "int" THEN Return(List(<<v, Num(v.n + 1)>>))
                     ELSE Raise(TypeError(v))
    [] f = "count" -> IF v.k \in {"str", "bytes", "list", "tuple"}
                      THEN Return(Num(Len(v.items))) ELSE Raise(TypeError(v))
    [] f = "text" -> Return(Abc)
    [] f = "even" -> IF v.k = "int"
                     THEN [ok |-> TRUE, val |-> Bool(v.n % 2 = 0), fx |-> <<Call("even", v)>>]
                     ELSE [ok |-> FALSE, val |-> TypeError(v), fx |-> <<Call("even", v)>>]
    [] f = "note" -> [ok |-> TRUE, val |-> Bool(TRUE), fx |-> <<Call("note", v)>>]

----------------------------------------------------------------------------
(* spread, keep, tap *)

\* spread(func)(value)
SpreadAfter(func, value) ==
  LET result == Func(func, value)
  IN IF ~result.ok THEN result
     ELSE IF IsIterable(result.val) /\ result.val.k \notin NON_STREAM_TYPES
          THEN [result EXCEPT !.val = Spread(result.val)]
          ELSE result

\* keep with None in place of a value it drops.
KeepPlaceholder(predicate, value) ==
  LET r == Func(predicate, value)
  IN IF ~r.ok THEN r
     ELSE IF Truthy(r.val)
          THEN [r EXCEPT !.val = Spread(Tuple(<<value>>))]
          ELSE [r EXCEPT !.val = Spread(Tuple(<<None>>))]

\* keep(predicate)(value)
Keep(predicate, value) ==
  LET r == Func(predicate, value)
  IN IF ~r.ok THEN r
     ELSE IF Truthy(r.val)
          THEN [r EXCEPT !.val = Spread(Tuple(<<value>>))]
          ELSE [r EXCEPT !.val = Spread(Tuple(<<>>))]

\* tap returning what func returns.
TapReturnsResult(func, value) == Func(func, value)

\* tap(func)(value)
Tap(func, value) ==
  LET r == Func(func, value)
  IN IF ~r.ok THEN r ELSE [r EXCEPT !.val = value]

\* The stages the pipelines are built from.
Stages ==
  {"inc", "twin", "count", "text", "spread_twin", "spread_text", "keep_even", "tap_note"}

\* stage(value)
ApplyStage(stage, value) ==
  CASE stage = "spread_twin" -> SpreadAfter("twin", value)
    [] stage = "spread_text" -> SpreadAfter("text", value)
    [] stage = "keep_even" -> Keep("even", value)
    [] stage = "tap_note" -> Tap("note", value)
    [] OTHER -> Func(stage, value)

----------------------------------------------------------------------------
(* Events of one invocation, in the order they happen:                     *)
(*   "stage": stage number k is called on the item at position i;          *)
(*   "iter":  the marker that call returned is iterated (k = 0: the        *)
(*            marker that holds the starting items);                       *)
(*   the caller's predicate or effect function is called ("even", "note"). *)

Event(e, k, i, v) == [ev |-> e, k |-> k, i |-> i, arg |-> v]

Tagged(fx, k, i) == [j \in 1..Len(fx) |-> Event(fx[j].fn, k, i, fx[j].arg)]

\* _emit iterating the marker a second time.
EmitTwice(value, k, i) ==
  IF IsSpread(value)
  THEN [items |-> Iter(value),
        evs |-> <<Event("iter", k, i, value), Event("iter", k, i, value)>>]
  ELSE [items |-> <<value>>, evs |-> <<>>]

\* _emit yielding the members last first.
EmitReversed(value, k, i) ==
  IF IsSpread(value)
  THEN [items |-> [j \in 1..Len(Iter(value)) |-> Iter(value)[Len(Iter(value)) + 1 - j]],
        evs |-> <<Event("iter", k, i, value)>>]
  ELSE [items |-> <<value>>, evs |-> <<>>]

\* _emit(value): the items it yields, and the iteration of the marker it makes.
Emit(value, k, i) ==
  IF IsSpread(value)
  THEN [items |-> Iter(value), evs |-> <<Event("iter", k, i, value)>>]
  ELSE [items |-> <<value>>, evs |-> <<>>]

Outcome(raised, ret, items, exc, log) ==
  [raised |-> raised, ret |-> ret, items |-> items, exc |-> exc, log |-> log]

----------------------------------------------------------------------------
(* Pipe *)

\* Pipe.__init__
PipeInit(input_data, stack) == [stack |-> stack, input_data |-> input_data]

\* The loop without `data = list(data)`.
RECURSIVE PipeLoopNoCollapse(_, _, _, _)
PipeLoopNoCollapse(stack, k, data, log) ==
  IF k > Len(stack) THEN Outcome(FALSE, data, <<>>, None, log)
  ELSE LET r == ApplyStage(stack[k], data)
           log1 == log \o <<Event("stage", k, 1, data)>> \o Tagged(r.fx, k, 1)
       IN IF ~r.ok THEN Outcome(TRUE, None, <<>>, r.val, log1)
          ELSE PipeLoopNoCollapse(stack, k + 1, r.val, log1)

\* The loop of Pipe.__call__, from stage number k on.
RECURSIVE PipeLoop(_, _, _, _)
PipeLoop(stack, k, data, log) ==
  IF k > Len(stack) THEN Outcome(FALSE, data, <<>>, None, log)
  ELSE LET r == ApplyStage(stack[k], data)
           log1 == log \o <<Event("stage", k, 1, data)>> \o Tagged(r.fx, k, 1)
       IN IF ~r.ok THEN Outcome(TRUE, None, <<>>, r.val, log1)
          ELSE IF IsSpread(r.val)
               THEN PipeLoop(stack, k + 1, List(Iter(r.val)),
                             log1 \o <<Event("iter", k, 1, r.val)>>)
               ELSE PipeLoop(stack, k + 1, r.val, log1)

PipeCallStoredOnly(self, stack, input_data) == PipeLoop(stack, 1, self.input_data, <<>>)

\* Pipe.__call__
PipeCall(self, stack, input_data) ==
  LET data == IF input_data = None THEN self.input_data ELSE input_data
  IN PipeLoop(stack, 1, data, <<>>)

----------------------------------------------------------------------------
(* PipeStream *)

\* PipeStream.__init__
PipeStreamInit(input_data, stack) ==
  IF input_data # None /\ IsIterable(input_data) /\ input_data.k \notin NON_STREAM_TYPES
  THEN [stack |-> stack, input_data |-> Spread(input_data)]
  ELSE [stack |-> stack, input_data |-> input_data]

\* The inner loop going on to the next item when a stage raises.
RECURSIVE WaveSwallow(_, _, _, _, _, _)
WaveSwallow(stage, k, items, i, next_stream, log) ==
  IF i > Len(items) THEN Outcome(FALSE, None, next_stream, None, log)
  ELSE LET r == ApplyStage(stage, items[i])
           log1 == log \o <<Event("stage", k, i, items[i])>> \o Tagged(r.fx, k, i)
       IN IF ~r.ok THEN WaveSwallow(stage, k, items, i + 1, next_stream, log1)
          ELSE LET e == Emit(r.val, k, i)
               IN WaveSwallow(stage, k, items, i + 1, next_stream \o e.items, log1 \o e.evs)

\* The inner loop of PipeStream.__call__: one stage over the items of the
\* stream from position i on.
RECURSIVE Wave(_, _, _, _, _, _)
Wave(stage, k, items, i, next_stream, log) ==
  IF i > Len(items) THEN Outcome(FALSE, None, next_stream, None, log)
  ELSE LET r == ApplyStage(stage, items[i])
           log1 == log \o <<Event("stage", k, i, items[i])>> \o Tagged(r.fx, k, i)
       IN IF ~r.ok THEN Outcome(TRUE, None, <<>>, r.val, log1)
          ELSE LET e == Emit(r.val, k, i)
               IN Wave(stage, k, items, i + 1, next_stream \o e.items, log1 \o e.evs)

\* The outer loop of PipeStream.__call__, from stage number k on.
RECURSIVE StreamLoop(_, _, _, _)
StreamLoop(stack, k, items, log) ==
  IF k > Len(stack) THEN Outcome(FALSE, None, items, None, log)
  ELSE LET w == Wave(stack[k], k, items, 1, <<>>, log)
       IN IF w.raised THEN w ELSE StreamLoop(stack, k + 1, w.items, w.log)

\* The starting value of PipeStream.__call__ after its normalisation.
Normalise(data) ==
  IF IsIterable(data) /\ data.k \notin NON_STREAM_TYPES /\ ~IsSpread(data)
  THEN Spread(data)
  ELSE data

\* PipeStream.__call__
StreamCall(self, stack, input_data) ==
  LET data == IF input_data = None THEN self.input_data ELSE input_data
  IN IF data = None THEN Outcome(FALSE, None, <<>>, None, <<>>)
     ELSE LET e == Emit(Normalise(data), 0, 0)
          IN StreamLoop(stack, 1, e.items, e.evs)

\* PipeStream.__iter__
StreamIter(self, stack) == StreamCall(self, stack, None)

\* self.stack.insert(0, stage)
RshiftInFront(stack, stage) == <<stage>> \o stack

\* self.stack.append(stage), in __rshift__ of both classes
Rshift(stack, stage) == Append(stack, stage)

\* from_pipe with stream.stack = pipe.stack: the one list, shared.
FromPipeShared(p, input_data, heap) ==
  [obj |-> PipeStreamInit(input_data, p.stack), heap |-> heap]

\* PipeStream.from_pipe: the new PipeStream and the heap with its stage list,
\* a new list holding what the Pipe's list holds.
FromPipe(p, input_data, heap) ==
  [obj |-> PipeStreamInit(input_data, "L3"),
   heap |-> [heap EXCEPT !["L3"] = heap[p.stack]]]

----------------------------------------------------------------------------
(* The state machine *)

ListIds == {"L1", "L2", "L3"}

\* The inputs pipelines are constructed and invoked with.
InputValues ==
  {None, Num(1), Num(2), Abc, Bytes(<<Num(1), Num(2)>>),
   List(<<Num(2), Num(1), Num(4)>>), List(<<Num(2), Abc, Num(1)>>),
   Tuple(<<Num(3), Num(0)>>)}

\* The smaller sets the specification of both pipelines draws from.
FewInputs == {None, List(<<Num(2), Abc, Num(1)>>)}
FewStages == {"inc", "keep_even"}

NoOutcome == Outcome(FALSE, None, <<>>, None, <<>>)

Op(op, obj, stage, input, out, retObj) ==
  [op |-> op, obj |-> obj, stage |-> stage, input |-> input, out |-> out,
   retObj |-> retObj]

\* p = Pipe(pi); s = PipeStream(si)
InitObjects(pi, si) ==
  /\ pipe = PipeInit(pi, "L1")
  /\ stream = PipeStreamInit(si, "L2")
  /\ lists = [l \in ListIds |-> <<>>]
  /\ last = Op("init", "none", "", None, NoOutcome, "none")
  /\ hist = [pipeCtor |-> pi, streamCtor |-> si, pipe |-> <<>>, stream |-> <<>>,
             base |-> <<>>]
  /\ stored = [calls |-> 0, iters |-> 0]

\* p >> stage
PipeRshift(stage) ==
  /\ Len(lists[pipe.stack]) < MaxStages
  /\ lists' = [lists EXCEPT ![pipe.stack] = Rshift(@, stage)]
  /\ last' = Op("append", "pipe", stage, None, NoOutcome, "pipe")
  /\ hist' = [hist EXCEPT !.pipe = Append(@, stage)]
  /\ UNCHANGED <<pipe, stream, stored>>

\* p(x)
PipeInvoke(x) ==
  /\ last' = Op("call", "pipe", "", x, PipeCall(pipe, lists[pipe.stack], x), "none")
  /\ UNCHANGED <<pipe, stream, lists, hist, stored>>

\* s >> stage
StreamRshift(stage) ==
  /\ Len(lists[stream.stack]) < MaxStages
  /\ lists' = [lists EXCEPT ![stream.stack] = Rshift(@, stage)]
  /\ last' = Op("append", "stream", stage, None, NoOutcome, "stream")
  /\ hist' = [hist EXCEPT !.stream = Append(@, stage)]
  /\ UNCHANGED <<pipe, stream, stored>>

\* The iterations of the marker that holds the starting items.
StartIters(log) == Cardinality({j \in 1..Len(log) : log[j].ev = "iter" /\ log[j].k = 0})

\* An invocation of s that ends as out: when it read the marker s stores, the
\* history counts it.
StreamInvoked(op, x, out) ==
  LET usesStored == x = None /\ IsSpread(stream.input_data)
  IN /\ usesStored => stored.calls < MaxStoredCalls
     /\ last' = Op(op, "stream", "", x, out, "none")
     /\ stored' = IF usesStored
                  THEN [calls |-> stored.calls + 1,
                        iters |-> stored.iters + StartIters(out.log)]
                  ELSE stored
     /\ UNCHANGED <<pipe, stream, lists, hist>>

\* s(x)
StreamInvoke(x) == StreamInvoked("call", x, StreamCall(stream, lists[stream.stack], x))

\* iter(s)
StreamIterate == StreamInvoked("iter", None, StreamIter(stream, lists[stream.stack]))

\* s = PipeStream.from_pipe(p, x)
Derive(x) ==
  LET r == FromPipe(pipe, x, lists)
  IN /\ stream' = r.obj
     /\ lists' = r.heap
     /\ last' = Op("from_pipe", "stream", "", x, NoOutcome, "stream")
     /\ hist' = [hist EXCEPT !.streamCtor = x, !.stream = <<>>,
                              !.base = lists[pipe.stack]]
     /\ stored' = [calls |-> 0, iters |-> 0]
     /\ UNCHANGED pipe

(* One Pipe *)
InitPipe == \E x \in InputValues : InitObjects(x, None)
PipeAppend == \E s \in Stages : PipeRshift(s)
PipeInvocation == \E x \in InputValues : PipeInvoke(x)
NextPipe == PipeAppend \/ PipeInvocation
SpecPipe == InitPipe /\ [][NextPipe]_vars

(* One PipeStream *)
InitStream == \E x \in InputValues : InitObjects(None, x)
StreamAppend == \E s \in Stages : StreamRshift(s)
StreamInvocation == \E x \in InputValues : StreamInvoke(x)
NextStream == StreamAppend \/ StreamInvocation \/ StreamIterate
SpecStream == InitStream /\ [][NextStream]_vars

(* A Pipe and a PipeStream, and PipeStreams derived from the Pipe *)
InitBoth == \E x \in FewInputs, y \in FewInputs : InitObjects(x, y)
BothPipeAppend == \E s \in FewStages : PipeRshift(s)
BothPipeInvocation == \E x \in FewInputs : PipeInvoke(x)
BothStreamAppend == \E s \in FewStages : StreamRshift(s)
BothStreamInvocation == \E x \in FewInputs : StreamInvoke(x)
Derivation == \E x \in FewInputs : Derive(x)
NextBoth ==
  \/ BothPipeAppend
  \/ BothPipeInvocation
  \/ BothStreamAppend
  \/ BothStreamInvocation
  \/ Derivation
SpecBoth == InitBoth /\ [][NextBoth]_vars

----------------------------------------------------------------------------
(* What the properties are stated with *)

PipeStack == lists[pipe.stack]
StreamStack == lists[stream.stack]

PipeCalled == last.op = "call" /\ last.obj = "pipe"
StreamCalled == last.op \in {"call", "iter"} /\ last.obj = "stream"

\* The events of one kind, and those of one kind at one stage.
EventsOf(log, e) == SelectSeq(log, LAMBDA x : x.ev = e)
EventsAt(log, e, k) == SelectSeq(log, LAMBDA x : x.ev = e /\ x.k = k)
Args(events) == [j \in 1..Len(events) |-> events[j].arg]

\* sn(...s2(s1(x))) for the first n stages: the value, or the exception of
\* the first stage that raises.
RECURSIVE Compose(_, _, _)
Compose(stack, n, x) ==
  IF n = 0 THEN Return(x)
  ELSE LET inner == Compose(stack, n - 1, x)
       IN IF inner.ok THEN ApplyStage(stack[n], inner.val) ELSE inner

NoMarkerReturned(stack, x) ==
  \A n \in 1..Len(stack) : ~(Compose(stack, n, x).ok /\ IsSpread(Compose(stack, n, x).val))

\* invoke(x) is the composition of the stages started from `from`, each stage
\* called once, in append order, on the result of the one before.
PipeIsComposition(from) ==
  LET c == Compose(PipeStack, Len(PipeStack), from)
      calls == EventsOf(last.out.log, "stage")
  IN /\ c.ok => ~last.out.raised /\ last.out.ret = c.val /\ Len(calls) = Len(PipeStack)
     /\ ~c.ok => last.out.raised /\ last.out.exc = c.val
     /\ \A j \in 1..Len(calls) :
          calls[j] = Event("stage", j, 1, Compose(PipeStack, j - 1, from).val)

\* C1 as stated: for every stored default input and every x, None included,
\* a Pipe whose stages return no marker returns sn(...s2(s1(x))) from invoke(x).
C1_FromTheArgument ==
  (PipeCalled /\ NoMarkerReturned(PipeStack, last.input)) => PipeIsComposition(last.input)

\* What invoke starts from: its argument, and the stored default input when
\* the argument is None.
Effective(self, x) == IF x = None THEN self.input_data ELSE x

\* C1 as amended: for every stored default input d and every x, a Pipe whose
\* stages return no marker returns sn(...s2(s1(e))) from invoke(x), where e is
\* x when x is not None and d when x is None: each stage is called exactly
\* once, in append order, on the result of the stage before, starting from e.
C1_FromTheEffectiveInput ==
  (PipeCalled /\ NoMarkerReturned(PipeStack, Effective(pipe, last.input)))
    => PipeIsComposition(Effective(pipe, last.input))

C1_Witness ==
  /\ PipeCalled
  /\ Len(PipeStack) = MaxStages
  /\ last.input = None
  /\ pipe.input_data # None
  /\ NoMarkerReturned(PipeStack, pipe.input_data)
  /\ ~last.out.raised
  /\ last.out.ret # pipe.input_data

\* What one stage call of a Pipe invocation handed on: the argument of the
\* next stage call, and after the last stage the value invoke returned.
HandedOn(calls, j) ==
  IF j < Len(calls) THEN calls[j + 1].arg ELSE last.out.ret

\* The stage calls of a Pipe invocation that returned (all of them, unless
\* the last one raised).
Returned(calls) ==
  {j \in 1..Len(calls) : j < Len(calls) \/ ~last.out.raised}

\* C9: in a Pipe invocation a marker a stage returns is collapsed into one
\* list of its members before the next stage runs: every stage is called at
\* most once, stage k + 1 on the whole list; the value returned after at
\* least one stage is no marker; keep(p) turns v into [v] when p(v) is true
\* and into [] otherwise.
C9_MarkersCollapse ==
  PipeCalled =>
    LET calls == EventsOf(last.out.log, "stage")
    IN /\ \A j \in 1..Len(calls) : calls[j].k = j /\ calls[j].i = 1
       /\ ~last.out.raised => Len(calls) = Len(PipeStack)
       /\ \A j \in Returned(calls) :
            LET r == ApplyStage(PipeStack[j], calls[j].arg)
            IN /\ ~IsSpread(HandedOn(calls, j))
               /\ IsSpread(r.val) => HandedOn(calls, j) = List(Iter(r.val))
               /\ PipeStack[j] = "keep_even" =>
                    HandedOn(calls, j) = IF calls[j].arg.n % 2 = 0
                                         THEN List(<<calls[j].arg>>)
                                         ELSE List(<<>>)

C9_Witness ==
  /\ PipeCalled
  /\ ~last.out.raised
  /\ PipeStack = <<"spread_twin", "count">>
  /\ last.out.ret = Num(2)

----------------------------------------------------------------------------
(* PipeStream: the stream as the flat-map of the stages *)

\* The items a stage result stands for.
Members(result) ==
  IF result.k = "spread" THEN Iter(result.items[1]) ELSE <<result>>

\* The starting items of an effective input.
StartItems(e) ==
  CASE e.k = "none" -> <<>>
    [] e.k \in {"list", "tuple"} -> e.items
    [] e.k = "spread" -> Iter(e)
    [] OTHER -> <<e>>

\* The ordered flat-map of one stage over a sequence of items.
RECURSIVE FlatMap(_, _)
FlatMap(stage, items) ==
  IF items = <<>> THEN <<>>
  ELSE Members(ApplyStage(stage, Head(items)).val) \o FlatMap(stage, Tail(items))

\* The items that leave stage n (n = 0: the starting items).
RECURSIVE WaveAfter(_, _, _)
WaveAfter(stack, n, start) ==
  IF n = 0 THEN start ELSE FlatMap(stack[n], WaveAfter(stack, n - 1, start))

StreamStart == StartItems(Effective(stream, last.input))

\* C2: a PipeStream invocation that completes returns the iterated ordered
\* flat-map of the stages over the starting items: every item, in order, is
\* replaced by the members of the stage's result when that is a marker (in
\* their order) and by the result itself otherwise.
C2_IteratedFlatMap ==
  (StreamCalled /\ ~last.out.raised) =>
    last.out.items = WaveAfter(StreamStack, Len(StreamStack), StreamStart)

C2_Witness ==
  /\ StreamCalled
  /\ ~last.out.raised
  /\ StreamStack = <<"spread_twin", "twin">>
  /\ Len(StreamStart) = 3
  /\ Len(last.out.items) = 6
  /\ last.out.items[1] = List(<<Num(2), Num(3)>>)
  /\ last.out.items[2] = List(<<Num(3), Num(4)>>)
  /\ last.out.items[3] = List(<<Num(1), Num(2)>>)

----------------------------------------------------------------------------
(* Strings and byte sequences are atomic *)

Atomic(v) == v.k \in {"str", "bytes"}
Expandable(v) == v.k \in {"list", "tuple"}

\* What a PipeStream constructed with c holds as its input.
StoredFor(c) == IF Expandable(c) THEN Spread(c) ELSE c

\* The items the first stage is called on, and with no stage the items
\* invoke returns: the starting items as the run shows them.
SeenStart ==
  IF StreamStack = <<>> THEN last.out.items
  ELSE Args(EventsAt(last.out.log, "stage", 1))

\* The stage calls of stage k in the last invocation that returned.
ReturnedAt(k) ==
  LET calls == EventsAt(last.out.log, "stage", k)
  IN IF last.out.raised /\ EventsAt(last.out.log, "stage", k + 1) = <<>>
     THEN SubSeq(calls, 1, Len(calls) - 1)
     ELSE calls

\* C3: a str or bytes is never expanded: the PipeStream constructor stores
\* it as it is, invoke makes it exactly one starting item, and spread(f)
\* returns it unchanged when f returns it; a list or tuple becomes a marker
\* at each of the three places.
C3_TextIsAtomic ==
  /\ Atomic(hist.streamCtor) => stream.input_data = hist.streamCtor
  /\ Expandable(hist.streamCtor) => stream.input_data = Spread(hist.streamCtor)
  /\ StreamCalled =>
       LET e == Effective(stream, last.input)
           opened == EventsAt(last.out.log, "iter", 0)
       IN /\ Atomic(e) => opened = <<>> /\ SeenStart = <<e>>
          /\ Expandable(e) => opened = <<Event("iter", 0, 0, Spread(e))>>
          /\ IsSpread(e) => opened = <<Event("iter", 0, 0, e)>>
          /\ \A k \in 1..Len(StreamStack) :
               /\ StreamStack[k] = "spread_text" =>
                    /\ EventsAt(last.out.log, "iter", k) = <<>>
                    /\ (k = Len(StreamStack) /\ ~last.out.raised) =>
                         last.out.items = [j \in 1..Len(ReturnedAt(k)) |-> Abc]
               /\ StreamStack[k] = "spread_twin" =>
                    EventsAt(last.out.log, "iter", k) =
                      [j \in 1..Len(ReturnedAt(k)) |->
                         Event("iter", k, j,
                               Spread(List(<<ReturnedAt(k)[j].arg,
                                             Num(ReturnedAt(k)[j].arg.n + 1)>>)))]

C3_Witness ==
  /\ StreamCalled
  /\ ~last.out.raised
  /\ hist.streamCtor = Bytes(<<Num(1), Num(2)>>)
  /\ last.input = Abc
  /\ StreamStack = <<"count", "spread_text">>
  /\ last.out.items = <<Abc>>

----------------------------------------------------------------------------
(* A stage that raises *)

\* Stage k raises on the item at position i of the sequence entering it, and
\* no stage call before that one raises.
FirstRaiseAt(stack, start, k, i) ==
  /\ \A j \in 1..(k - 1) : \A m \in 1..Len(WaveAfter(stack, j - 1, start)) :
       ApplyStage(stack[j], WaveAfter(stack, j - 1, start)[m]).ok
  /\ i \in 1..Len(WaveAfter(stack, k - 1, start))
  /\ \A m \in 1..(i - 1) : ApplyStage(stack[k], WaveAfter(stack, k - 1, start)[m]).ok
  /\ ~ApplyStage(stack[k], WaveAfter(stack, k - 1, start)[i]).ok

\* Every stage before k called on every item of its wave, in order, then
\* stage k called on the items at positions 1..i of its wave.
RECURSIVE CallsUpTo(_, _, _, _)
CallsUpTo(stack, start, k, i) ==
  (IF k = 1 THEN <<>>
   ELSE CallsUpTo(stack, start, k - 1, Len(WaveAfter(stack, k - 2, start))))
  \o [m \in 1..i |-> Event("stage", k, m, WaveAfter(stack, k - 1, start)[m])]

\* C4: when stage k raises on the item at position i of its wave, invoke
\* raises that exception, the stage calls made are exactly those of the
\* stages before k on their whole waves and of stage k on positions 1..i, no
\* result is returned, and the stage list and the stored input are as they
\* were.
C4_RaiseAborts ==
  StreamCalled =>
    /\ last.out.raised =>
         \E k \in 1..Len(StreamStack) :
           \E i \in 1..Len(WaveAfter(StreamStack, k - 1, StreamStart)) :
             FirstRaiseAt(StreamStack, StreamStart, k, i)
    /\ \A k \in 1..Len(StreamStack) : \A i \in 1..Len(WaveAfter(StreamStack, k - 1, StreamStart)) :
      FirstRaiseAt(StreamStack, StreamStart, k, i) =>
        /\ last.out.raised
        /\ last.out.exc = ApplyStage(StreamStack[k], WaveAfter(StreamStack, k - 1, StreamStart)[i]).val
        /\ EventsOf(last.out.log, "stage") = CallsUpTo(StreamStack, StreamStart, k, i)
        /\ last.out.items = <<>>
        /\ StreamStack = hist.base \o hist.stream
        /\ stream.input_data = StoredFor(hist.streamCtor)

C4_Witness ==
  /\ StreamCalled
  /\ last.out.raised
  /\ Len(StreamStack) = MaxStages
  /\ FirstRaiseAt(StreamStack, StreamStart, MaxStages, 2)
  /\ Len(WaveAfter(StreamStack, MaxStages - 1, StreamStart)) > 2
  /\ Len(EventsOf(last.out.log, "stage")) > 3

----------------------------------------------------------------------------
(* Iterations of a marker *)

\* The iterations, in the last invocation, of the marker that the stage call
\* at (k, i) returned; (0, 0) is the marker holding the starting items.
Iterations(k, i) ==
  Len(SelectSeq(last.out.log, LAMBDA x : x.ev = "iter" /\ x.k = k /\ x.i = i))

Positions == {<<x.k, x.i>> : x \in {last.out.log[j] : j \in 1..Len(last.out.log)}} \cup {<<0, 0>>}

\* C5 as stated: a marker is iterated at most once over its whole lifetime,
\* the marker made from the constructor input included, however often the
\* pipeline is invoked.
C5_OnceInALifetime ==
  /\ stored.iters <= 1
  /\ StreamCalled => \A p \in Positions : Iterations(p[1], p[2]) <= 1

\* C5 as amended: within one invocation every marker is iterated at most
\* once, and exactly once when the stage call that returned it returned to
\* the pipeline; the marker made from the constructor input is iterated
\* exactly once in each invocation that uses the stored input, so as often
\* as the pipeline is invoked without an input.
C5_OncePerInvocation ==
  /\ stored.iters = stored.calls
  /\ StreamCalled =>
       /\ \A p \in Positions : Iterations(p[1], p[2]) <= 1
       /\ IsSpread(Normalise(Effective(stream, last.input))) => Iterations(0, 0) = 1
       /\ \A k \in 1..Len(StreamStack) : \A j \in 1..Len(ReturnedAt(k)) :
            IsSpread(ApplyStage(StreamStack[k], ReturnedAt(k)[j].arg).val)
              => Iterations(k, j) = 1

C5_Witness ==
  /\ StreamCalled
  /\ stored.calls = MaxStoredCalls
  /\ stored.iters > 1
  /\ \E k \in 1..Len(StreamStack) : StreamStack[k] = "keep_even" /\ Iterations(k, 2) = 1

----------------------------------------------------------------------------
(* keep and tap *)

IsEven(v) == v.n % 2 = 0

\* C7: a PipeStream whose only stage is keep(p) yields the starting items
\* for which p is true, in their order and nothing in place of the others,
\* and calls p exactly once per starting item, in stream order.
C7_KeepFilters ==
  (StreamCalled /\ StreamStack = <<"keep_even">>) =>
    LET called == Len(EventsOf(last.out.log, "stage"))
    IN /\ EventsOf(last.out.log, "even") =
            [j \in 1..called |-> Event("even", 1, j, StreamStart[j])]
       /\ ~last.out.raised =>
            /\ called = Len(StreamStart)
            /\ last.out.items = SelectSeq(StreamStart, IsEven)

C7_Witness ==
  /\ StreamCalled
  /\ StreamStack = <<"keep_even">>
  /\ StreamStart = <<Num(2), Num(1), Num(4)>>
  /\ last.out.items = <<Num(2), Num(4)>>

\* C8: for each tap(fn) stage that an invocation reaches, fn is called exactly
\* once for each item of the sequence entering the stage, in its order, and
\* the sequence leaving the stage is the one entering it, fn's return value
\* dropped: the next stage is called on those items, and after the last
\* stage they are the result.
C8_TapPassesThrough ==
  StreamCalled =>
    \A k \in 1..Len(StreamStack) :
      (StreamStack[k] = "tap_note"
         /\ \A j \in 1..(k - 1) : \A m \in 1..Len(WaveAfter(StreamStack, j - 1, StreamStart)) :
              ApplyStage(StreamStack[j], WaveAfter(StreamStack, j - 1, StreamStart)[m]).ok)
      => LET entering == WaveAfter(StreamStack, k - 1, StreamStart)
             next == Args(EventsAt(last.out.log, "stage", k + 1))
         IN /\ Args(EventsAt(last.out.log, "stage", k)) = entering
            /\ EventsAt(last.out.log, "note", k) =
                 [j \in 1..Len(entering) |-> Event("note", k, j, entering[j])]
            /\ EventsAt(last.out.log, "iter", k) = <<>>
            /\ k = Len(StreamStack) => ~last.out.raised /\ last.out.items = entering
            /\ k < Len(StreamStack) =>
                 /\ Len(next) <= Len(entering)
                 /\ next = SubSeq(entering, 1, Len(next))
                 /\ ~last.out.raised => next = entering

C8_Witness ==
  /\ StreamCalled
  /\ ~last.out.raised
  /\ StreamStack = <<"spread_twin", "tap_note">>
  /\ Len(EventsOf(last.out.log, "note")) = 6
  /\ last.out.items = <<Num(2), Num(3), Num(1), Num(2), Num(4), Num(5)>>

----------------------------------------------------------------------------
(* The stage lists *)

\* The step is an invocation of either pipeline.
Invoked == last'.op \in {"call", "iter"} /\ last' # last

\* C6: the stage list of a pipeline is the sequence of the stages appended
\* to it, in append order (after those a derived PipeStream was made with):
\* an append adds its stage at the end and returns the pipeline it was
\* applied to, and an invocation, returning or raising, leaves both stage
\* lists and both stored inputs as they were.
C6_AppendOnly ==
  /\ [](/\ PipeStack = hist.pipe
        /\ StreamStack = hist.base \o hist.stream
        /\ pipe.input_data = hist.pipeCtor
        /\ stream.input_data = StoredFor(hist.streamCtor)
        /\ last.op = "append" =>
             /\ last.retObj = last.obj
             /\ last.obj = "pipe" => PipeStack[Len(PipeStack)] = last.stage
             /\ last.obj = "stream" => StreamStack[Len(StreamStack)] = last.stage)
  /\ [][Invoked => lists' = lists /\ pipe' = pipe /\ stream' = stream]_vars
  /\ [][last'.op = "append" /\ last'.obj = "pipe" =>
          lists'[pipe'.stack] = Append(lists[pipe.stack], last'.stage)]_vars
  /\ [][last'.op = "append" /\ last'.obj = "stream" =>
          lists'[stream'.stack] = Append(lists[stream.stack], last'.stage)]_vars

C6_Witness ==
  /\ PipeCalled
  /\ last.out.raised
  /\ PipeStack = <<"keep_even", "inc">>
  /\ StreamStack = <<"inc", "keep_even">>
  /\ stream.stack = "L2"

\* C10: PipeStream.from_pipe(P, x) makes a PipeStream whose stage sequence is
\* P's at that time and leaves P as it was; afterwards an append to P leaves
\* the derived pipeline's stage sequence as it was, and an append to the
\* derived pipeline leaves P's.
C10_DerivedIsACopy ==
  /\ [][last'.op = "from_pipe" =>
          /\ lists'[stream'.stack] = lists[pipe.stack]
          /\ pipe' = pipe
          /\ lists'[pipe'.stack] = lists[pipe.stack]]_vars
  /\ [][last'.op = "append" /\ last'.obj = "pipe" =>
          lists'[stream'.stack] = lists[stream.stack]]_vars
  /\ [][last'.op = "append" /\ last'.obj = "stream" =>
          lists'[pipe'.stack] = lists[pipe.stack]]_vars

C10_Witness ==
  /\ last.op = "append"
  /\ last.obj = "pipe"
  /\ stream.stack = "L3"
  /\ hist.base = <<"inc">>
  /\ hist.stream = <<"keep_even">>
  /\ PipeStack = <<"inc", "inc">>
  /\ StreamStack = <<"inc", "keep_even">>

====
